---- MODULE Spec2Model ----
(***************************************************************************)
(* A model of roboat's request execution layer: the response classifier    *)
(* (src/src/validation.rs), the retry-once-on-invalid-xcsrf wrappers of    *)
(* the economy endpoints and its listing methods                           *)
(* (src/src/economy/mod.rs) and the cached user information                *)
(* (src/src/users/mod.rs).                                                 *)
(***************************************************************************)
EXTENDS Integers, Sequences, FiniteSets, TLC

(***************************************************************************)
(* Bounds of the model.                                                    *)
(***************************************************************************)
\* Concurrent logical calls sharing one Client.
NCalls == 2
\* Tokens the remote service issues over a run: 1..MaxToken, in this order.
MaxToken == 2
\* Versions of the account's identity the remote service may answer with.
NVersions == 2
\* Longest `errors` list of a structured error body.
MaxErrors == 2
\* Longest cursor a caller passes to a listing method, in characters.
MaxCursor == 2
\* Longest `data` list of a page the remote service answers with.
MaxItems == 2

\* `code: u16` of RobloxErrorRaw: the largest code that deserializes.
U16Max == 65535

Calls == 1 .. NCalls
Tokens == 1 .. MaxToken

\* Option<T>: None, Some(x).
None == << >>
Some(x) == << x >>

(***************************************************************************)
(* HTTP exchanges: what reqwest hands to validate_request_result.          *)
(***************************************************************************)
\* A header value is bytes; to_str() succeeds only on visible ASCII.
HeaderValue(t) == [visible_ascii |-> TRUE, text |-> t]
OpaqueHeaderValue == [visible_ascii |-> FALSE, text |-> 0]
XcsrfHeaders ==
    {None} \cup {Some(HeaderValue(t)) : t \in Tokens} \cup {Some(OpaqueHeaderValue)}

\* HeaderValue::to_str
ToStr(hv) == IF hv.visible_ascii THEN Some(hv.text) ELSE None

\* Entries of a structured error body; the last has a code that is no u16.
ErrorEntries ==
    {[code |-> 0, message |-> "Token Validation Failed"],
     [code |-> 1, message |-> "Forbidden"],
     [code |-> 2, message |-> "Unauthorized"],
     [code |-> U16Max + 1, message |-> "Overflow"]}
\* The `errors` lists of at most MaxErrors entries: the prefixes of the
\* 4-tuples of entries.
ErrorLists ==
    {SubSeq(l, 1, len) :
        l \in ErrorEntries \X ErrorEntries \X ErrorEntries \X ErrorEntries,
        len \in 0 .. MaxErrors}

PendingTransactionMsg == "You have a pending transaction. Please wait 1 minute and try again."
AlreadyOwnMsg == "You already own this item."
NotForSaleMsg == "This item is not for sale."
NotEnoughRobuxMsg == "You do not have enough Robux to purchase this item."
PriceChangedMsg == "This item has changed price. Please try again."
PurchaseMessages ==
    {PendingTransactionMsg, AlreadyOwnMsg, NotForSaleMsg, NotEnoughRobuxMsg,
     PriceChangedMsg, "this item is not for sale.", ""}

\* The account of the roblosecurity (id 1); its username (10 + v) and its
\* display name (20 + v) change from version to version.
UserBody(v) == [shape |-> "user", id |-> 1, name |-> 10 + v, displayName |-> 20 + v]

GarbageBody == [shape |-> "garbage"]
ErrorBodies == {[shape |-> "errors", errors |-> l] : l \in ErrorLists}
PurchaseBodies ==
    {[shape |-> "purchase", purchased |-> p, error_msg |-> m] :
        p \in BOOLEAN, m \in PurchaseMessages}
UserBodies == {UserBody(v) : v \in 1 .. NVersions}
Bodies == {GarbageBody} \cup ErrorBodies \cup PurchaseBodies \cup UserBodies

Statuses == {200, 400, 401, 403, 429, 500, 404, 503}

Response(s, h, b) == [ok |-> TRUE, status |-> s, xcsrf_header |-> h, body |-> b]
\* Err(reqwest::Error): the transport failed.
TransportFailure == [ok |-> FALSE]
RequestResults ==
    {TransportFailure} \cup
    {Response(s, h, b) : s \in Statuses, h \in XcsrfHeaders, b \in Bodies}

(***************************************************************************)
(* RoboatError, and the values the classifier returns.                     *)
(***************************************************************************)
Ok(x) == [tag |-> "Ok", value |-> x]
ReqwestError == [tag |-> "ReqwestError"]
BadRequest == [tag |-> "BadRequest"]
InvalidRoblosecurity == [tag |-> "InvalidRoblosecurity"]
RoblosecurityNotSet == [tag |-> "RoblosecurityNotSet"]
TooManyRequests == [tag |-> "TooManyRequests"]
InternalServerError == [tag |-> "InternalServerError"]
MalformedResponse == [tag |-> "MalformedResponse"]
XcsrfNotReturned == [tag |-> "XcsrfNotReturned"]
InvalidXcsrf(t) == [tag |-> "InvalidXcsrf", xcsrf |-> t]
UnidentifiedStatusCode(s) == [tag |-> "UnidentifiedStatusCode", code |-> s]
UnknownRobloxErrorCode(c, m) ==
    [tag |-> "UnknownRobloxErrorCode", code |-> c, message |-> m]
PurchaseLimitedError(e) == [tag |-> "PurchaseLimitedError", error |-> e]
UnknownRobloxErrorMsg(m) == [variant |-> "UnknownRobloxErrorMsg", msg |-> m]
PurchaseVariant(v) == [variant |-> v, msg |-> ""]
\* Not a value: the thread panicked (Option::unwrap on a failed to_str).
Panicked == [tag |-> "Panicked"]

\* response.json::<RobloxErrorResponse>(): the errors, or None when the body
\* does not deserialize (no `errors` array, or a code that is no u16).
JsonRobloxErrorResponse(body) ==
    IF /\ body.shape = "errors"
       /\ \A i \in 1 .. Len(body.errors) : body.errors[i].code \in 0 .. U16Max
    THEN Some(body.errors)
    ELSE None

\* error_response.errors.first()
First(errors) == IF Len(errors) = 0 THEN None ELSE Some(errors[1])

Process403(response) ==
    LET got == response.xcsrf_header
        parsed == JsonRobloxErrorResponse(response.body)
    IN  IF got # None /\ ToStr(got[1]) = None
        THEN Panicked
        ELSE IF got # None
        THEN LET header_xcsrf == ToStr(got[1])[1]
             IN  IF parsed = None THEN InvalidXcsrf(header_xcsrf)
                 ELSE IF First(parsed[1]) = None THEN InvalidXcsrf(header_xcsrf)
                 ELSE LET error == First(parsed[1])[1]
                      IN  IF error.code = 0 THEN InvalidXcsrf(header_xcsrf)
                          ELSE UnknownRobloxErrorCode(error.code, error.message)
        ELSE IF parsed = None THEN XcsrfNotReturned
             ELSE IF First(parsed[1]) = None THEN MalformedResponse
             ELSE LET error == First(parsed[1])[1]
                  IN  IF error.code = 0 THEN XcsrfNotReturned
                      ELSE UnknownRobloxErrorCode(error.code, error.message)

\* A process_400 that, like process_403, takes code 0 for no error at all.
Process400ZeroIsBadRequest(response) ==
    LET parsed == JsonRobloxErrorResponse(response.body)
    IN  IF parsed = None THEN BadRequest
        ELSE IF First(parsed[1]) = None THEN BadRequest
        ELSE LET error == First(parsed[1])[1]
             IN  IF error.code = 0 THEN BadRequest
                 ELSE UnknownRobloxErrorCode(error.code, error.message)

Process400(response) ==
    LET parsed == JsonRobloxErrorResponse(response.body)
    IN  IF parsed = None THEN BadRequest
        ELSE IF First(parsed[1]) = None THEN BadRequest
        ELSE LET error == First(parsed[1])[1]
             IN  UnknownRobloxErrorCode(error.code, error.message)

HandleNon200StatusCodes(response) ==
    CASE response.status = 200 -> Ok(response)
      [] response.status = 400 -> Process400(response)
      [] response.status = 401 -> InvalidRoblosecurity
      [] response.status = 403 -> Process403(response)
      [] response.status = 429 -> TooManyRequests
      [] response.status = 500 -> InternalServerError
      [] OTHER -> UnidentifiedStatusCode(response.status)

ValidateRequestResult(request_result) ==
    IF request_result.ok
    THEN HandleNon200StatusCodes(request_result)
    ELSE ReqwestError


(***************************************************************************)
(* What each *_internal function returns for a completed exchange.         *)
(***************************************************************************)
\* Ok(())
Unit == << >>

\* parse_to_raw::<T>: the body as a T, or MalformedResponse.
ParseToRaw(shape, response) ==
    IF response.body.shape = shape THEN Ok(response.body) ELSE MalformedResponse

\* The tail of put_limited_on_sale_internal and take_limited_off_sale_internal:
\* only a 200 status code is needed.
ToggleSaleResult(request_result) ==
    LET validated == ValidateRequestResult(request_result)
    IN  IF validated.tag = "Ok" THEN Ok(Unit) ELSE validated

\* A match that takes the not-for-sale phrase in any case.
PurchaseOutcomeAnyCase(raw) ==
    IF raw.purchased THEN Ok(Unit)
    ELSE CASE raw.error_msg = PendingTransactionMsg ->
                PurchaseLimitedError(PurchaseVariant("CannotBuyOwnItem"))
           [] raw.error_msg = AlreadyOwnMsg ->
                PurchaseLimitedError(PurchaseVariant("CannotBuyOwnItem"))
           [] raw.error_msg \in {NotForSaleMsg, "this item is not for sale."} ->
                PurchaseLimitedError(PurchaseVariant("ItemNotForSale"))
           [] raw.error_msg = NotEnoughRobuxMsg ->
                PurchaseLimitedError(PurchaseVariant("NotEnoughRobux"))
           [] raw.error_msg = PriceChangedMsg ->
                PurchaseLimitedError(PurchaseVariant("PriceChanged"))
           [] OTHER ->
                PurchaseLimitedError(UnknownRobloxErrorMsg(raw.error_msg))

\* The match on raw.purchased and raw.error_msg of purchase_limited_internal.
PurchaseOutcome(raw) ==
    IF raw.purchased THEN Ok(Unit)
    ELSE CASE raw.error_msg = PendingTransactionMsg ->
                PurchaseLimitedError(PurchaseVariant("CannotBuyOwnItem"))
           [] raw.error_msg = AlreadyOwnMsg ->
                PurchaseLimitedError(PurchaseVariant("CannotBuyOwnItem"))
           [] raw.error_msg = NotForSaleMsg ->
                PurchaseLimitedError(PurchaseVariant("ItemNotForSale"))
           [] raw.error_msg = NotEnoughRobuxMsg ->
                PurchaseLimitedError(PurchaseVariant("NotEnoughRobux"))
           [] raw.error_msg = PriceChangedMsg ->
                PurchaseLimitedError(PurchaseVariant("PriceChanged"))
           [] OTHER ->
                PurchaseLimitedError(UnknownRobloxErrorMsg(raw.error_msg))

\* The tail of purchase_limited_internal, from validate_request_result on.
PurchaseLimitedResult(request_result) ==
    LET validated == ValidateRequestResult(request_result)
    IN  IF validated.tag # "Ok" THEN validated
        ELSE LET raw == ParseToRaw("purchase", validated.value)
             IN  IF raw.tag # "Ok" THEN raw ELSE PurchaseOutcome(raw.value)

\* The tail of user_information_internal up to the parsed UserInformation.
UserInformationResult(request_result) ==
    LET validated == ValidateRequestResult(request_result)
    IN  IF validated.tag # "Ok" THEN validated
        ELSE LET raw == ParseToRaw("user", validated.value)
             IN  IF raw.tag # "Ok" THEN raw
                 ELSE Ok([user_id |-> raw.value.id,
                          username |-> raw.value.name,
                          display_name |-> raw.value.displayName])

Mutating == {"put_limited_on_sale", "take_limited_off_sale", "purchase_limited"}
Accessors == {"user_id", "username", "display_name"}
Kinds == Mutating \cup Accessors

InternalResult(k, request_result) ==
    CASE k = "purchase_limited" -> PurchaseLimitedResult(request_result)
      [] k \in {"put_limited_on_sale", "take_limited_off_sale"} ->
            ToggleSaleResult(request_result)
      [] OTHER -> UserInformationResult(request_result)

\* What the remote service may answer while its current token is t: any
\* status, any body, and on the refresh header nothing, t, or bytes that are
\* no visible ASCII; or the transport fails.
ServerAnswers(t) ==
    {TransportFailure} \cup
    {Response(s, h, b) :
        s \in Statuses,
        h \in {None, Some(HeaderValue(t)), Some(OpaqueHeaderValue)},
        b \in Bodies}

AnswerResults(k, t) == {InternalResult(k, rr) : rr \in ServerAnswers(t)}
\* AnswerResults, tabulated.
ResultsTable == {<<k, t, AnswerResults(k, t)>> : k \in Kinds, t \in Tokens}
InternalResults(k, t) == (CHOOSE x \in ResultsTable : x[1] = k /\ x[2] = t)[3]

(***************************************************************************)
(* The Client and the calls in flight on it.                               *)
(***************************************************************************)
VARIABLES
    roblosecurity,   \* Client::roblosecurity: Option, fixed at construction
    xcsrf,           \* Client::xcsrf: the token attached to mutating requests
    user_id,         \* Client::user_id: Mutex<Option<u64>>
    username,        \* Client::username: Mutex<Option<String>>
    display_name,    \* Client::display_name: Mutex<Option<String>>
    server_token,    \* the remote service's current token
    pc,              \* where each call stands
    kind,            \* the public method each call runs
    request,         \* the request each call has on the network, if any
    attempts,        \* how many requests each call has put on the network
    outcomes,        \* what each *_internal invocation of the call returned
    result,          \* what the call returned to its caller
    info,            \* the UserInformation a call parsed, before caching it
    wrote,           \* how often the call has written xcsrf
    overw,           \* while a call holds an InvalidXcsrf: the token another
                     \* call last wrote to xcsrf since this call got it, or
                     \* since its own write
    clobbered,       \* another call wrote the cache while this one was caching
    held,            \* the MutexGuards each call holds
    sent,            \* target and body of the requests each call has sent
    exchange,        \* the exchange handed to the classifier on its own
    classified,      \* and what the classifier made of it
    argument,        \* the arguments of a listing call on its own
    wire             \* and the request target reqwest sent for it, if any

session_vars ==
    <<roblosecurity, xcsrf, user_id, username, display_name, server_token,
      pc, kind, request, attempts, outcomes, result, info, wrote, overw,
      clobbered, held, sent>>
classify_vars == <<exchange, classified, argument, wire>>
vars == <<session_vars, classify_vars>>

\* The xcsrf of a freshly built Client: the empty string, older than any
\* token the service issues.
EmptyXcsrf == 0

NoResult == [tag |-> "NoResult"]
NotClassified == [tag |-> "NotClassified"]
NoArgument == [op |-> "none"]
Finished == {"idle", "done", "panicked"}

\* Client::set_xcsrf: the slot is overwritten, whatever it held.
SetXcsrf(old, new_xcsrf) == new_xcsrf

\* Client::xcsrf: a copy of the slot.
Xcsrf == xcsrf

\* Client::cookie_string()?: fails before any network use when no
\* roblosecurity is set.
CookieString == IF roblosecurity = None THEN RoblosecurityNotSet ELSE Ok(roblosecurity[1])

\* A match that sends every InvalidXcsrf back through set_xcsrf and one more
\* invocation.
AfterInternalRetryAlways(n, e) ==
    IF e.tag = "InvalidXcsrf" THEN "refresh" ELSE "done"

\* A match that also re-invokes *_internal after a transport failure.
AfterInternalRetryTransport(n, e) ==
    IF n = 1 /\ e.tag = "InvalidXcsrf" THEN "refresh"
    ELSE IF n = 1 /\ e.tag = "ReqwestError" THEN "attempt"
    ELSE "done"

\* A match that re-invokes *_internal after a failed purchase.
AfterInternalRetryPurchase(n, e) ==
    IF n = 1 /\ e.tag = "InvalidXcsrf" THEN "refresh"
    ELSE IF e.tag = "PurchaseLimitedError" THEN "attempt"
    ELSE "done"

\* A match without the InvalidXcsrf arm: whatever *_internal returned is
\* returned.
AfterInternalNoRetry(n, e) == "done"

\* The match of put_limited_on_sale, take_limited_off_sale and
\* purchase_limited on what the n-th *_internal invocation returned: the
\* first InvalidXcsrf leads to set_xcsrf and one more invocation, everything
\* else is returned.
AfterInternal(n, e) ==
    IF n = 1 /\ e.tag = "InvalidXcsrf" THEN "refresh" ELSE "done"

SessionInit ==
    /\ roblosecurity \in {None, Some("roblosecurity")}
    /\ xcsrf = EmptyXcsrf
    /\ user_id = None
    /\ username = None
    /\ display_name = None
    /\ server_token = 1
    /\ pc = [c \in Calls |-> "idle"]
    /\ kind = [c \in Calls |-> "none"]
    /\ request = [c \in Calls |-> None]
    /\ attempts = [c \in Calls |-> 0]
    /\ outcomes = [c \in Calls |-> << >>]
    /\ result = [c \in Calls |-> NoResult]
    /\ info = [c \in Calls |-> None]
    /\ wrote = [c \in Calls |-> 0]
    /\ overw = [c \in Calls |-> None]
    /\ clobbered = [c \in Calls |-> FALSE]
    /\ held = [c \in Calls |-> {}]
    /\ sent = [c \in Calls |-> << >>]

\* A call starts from scratch.
Begin(c, k, at) ==
    /\ pc[c] \in Finished
    /\ pc' = [pc EXCEPT ![c] = at]
    /\ kind' = [kind EXCEPT ![c] = k]
    /\ request' = [request EXCEPT ![c] = None]
    /\ attempts' = [attempts EXCEPT ![c] = 0]
    /\ outcomes' = [outcomes EXCEPT ![c] = << >>]
    /\ info' = [info EXCEPT ![c] = None]
    /\ wrote' = [wrote EXCEPT ![c] = 0]
    /\ overw' = [overw EXCEPT ![c] = None]
    /\ clobbered' = [clobbered EXCEPT ![c] = FALSE]
    /\ sent' = [sent EXCEPT ![c] = << >>]

\* put_limited_on_sale, take_limited_off_sale or purchase_limited is called.
CallMutating(c, k) ==
    /\ k \in Mutating
    /\ Begin(c, k, "attempt")
    /\ result' = [result EXCEPT ![c] = NoResult]
    /\ UNCHANGED <<roblosecurity, xcsrf, user_id, username, display_name,
                   server_token, held, classify_vars>>

\* A public method that returns the first invocation's error after the retry.
ConcludeFirstError(c, e) ==
    LET next == AfterInternal(Len(outcomes[c]) + 1, e)
    IN  /\ outcomes' = [outcomes EXCEPT ![c] = Append(@, e)]
        /\ pc' = [pc EXCEPT ![c] = next]
        /\ result' = [result EXCEPT ![c] =
                         IF next = "done" THEN outcomes'[c][1] ELSE @]
        /\ overw' = [overw EXCEPT ![c] = None]

\* An invocation of *_internal has returned e to the public method.
Conclude(c, e) ==
    LET next == AfterInternal(Len(outcomes[c]) + 1, e)
    IN  /\ outcomes' = [outcomes EXCEPT ![c] = Append(@, e)]
        /\ pc' = [pc EXCEPT ![c] = next]
        /\ result' = [result EXCEPT ![c] = IF next = "done" THEN e ELSE @]
        /\ overw' = [overw EXCEPT ![c] = None]

\* The arguments call c was made with: item_id, uaid and price of
\* put_limited_on_sale and take_limited_off_sale; product_id, seller_id, uaid
\* and price of purchase_limited.
CallArgs(c) ==
    [item_id |-> 10 * c + 1, uaid |-> 10 * c + 2, price |-> 10 * c + 3,
     product_id |-> 10 * c + 4, seller_id |-> 10 * c + 5]

\* What *_internal puts in its request besides the cookie and the token: the
\* method, the formatted_url and the json body.
PutLimitedOnSaleInternal(item_id, uaid, price) ==
    [method |-> "PATCH",
     target |-> <<"https://economy.roblox.com/v1/assets/", item_id,
                  "/resellable-copies/", uaid>>,
     json |-> {<<"price", price>>}]

TakeLimitedOffSaleInternal(item_id, uaid) ==
    [method |-> "PATCH",
     target |-> <<"https://economy.roblox.com/v1/assets/", item_id,
                  "/resellable-copies/", uaid>>,
     json |-> {}]

PurchaseLimitedInternal(product_id, price, seller_id, uaid) ==
    [method |-> "POST",
     target |-> <<"https://economy.roblox.com/v1/purchases/products/", product_id>>,
     json |-> {<<"expectedCurrency", 1>>, <<"expectedPrice", price>>,
               <<"expectedSellerId", seller_id>>, <<"userAssetId", uaid>>}]

\* The first invocation of *_internal by the public method k with arguments a.
FirstInvocation(k, a) ==
    CASE k = "put_limited_on_sale" ->
            PutLimitedOnSaleInternal(a.item_id, a.uaid, a.price)
      [] k = "take_limited_off_sale" ->
            TakeLimitedOffSaleInternal(a.item_id, a.uaid)
      [] OTHER ->
            PurchaseLimitedInternal(a.product_id, a.price, a.seller_id, a.uaid)

\* A retry arm that passes purchase_limited's arguments on in the order the
\* public method takes them.
RetryInvocationPublicOrder(k, a) ==
    CASE k = "put_limited_on_sale" ->
            PutLimitedOnSaleInternal(a.item_id, a.uaid, a.price)
      [] k = "take_limited_off_sale" ->
            TakeLimitedOffSaleInternal(a.item_id, a.uaid)
      [] OTHER ->
            PurchaseLimitedInternal(a.product_id, a.seller_id, a.uaid, a.price)

\* The invocation of *_internal in the InvalidXcsrf arm.
RetryInvocation(k, a) ==
    CASE k = "put_limited_on_sale" ->
            PutLimitedOnSaleInternal(a.item_id, a.uaid, a.price)
      [] k = "take_limited_off_sale" ->
            TakeLimitedOffSaleInternal(a.item_id, a.uaid)
      [] OTHER ->
            PurchaseLimitedInternal(a.product_id, a.price, a.seller_id, a.uaid)

\* The invocation call c is at.
Invocation(c) ==
    IF Len(outcomes[c]) = 0
    THEN FirstInvocation(kind[c], CallArgs(c))
    ELSE RetryInvocation(kind[c], CallArgs(c))

\* An *_internal that is handed the new token by the retry instead of reading
\* the slot again.
SendMutatingNewToken(c) ==
    /\ pc[c] = "attempt"
    /\ kind[c] \in Mutating
    /\ IF CookieString.tag # "Ok"
       THEN /\ Conclude(c, CookieString)
            /\ UNCHANGED <<request, attempts, sent>>
       ELSE /\ request' = [request EXCEPT ![c] =
                             Some([xcsrf |-> Some(IF Len(outcomes[c]) = 0
                                                  THEN Xcsrf
                                                  ELSE outcomes[c][1].xcsrf)])]
            /\ attempts' = [attempts EXCEPT ![c] = @ + 1]
            /\ sent' = [sent EXCEPT ![c] = Append(@, Invocation(c))]
            /\ pc' = [pc EXCEPT ![c] = "flight"]
            /\ UNCHANGED <<outcomes, result, overw>>
    /\ UNCHANGED <<roblosecurity, xcsrf, user_id, username, display_name,
                   server_token, kind, info, wrote, clobbered, held, classify_vars>>

\* *_internal up to send(): the cookie is built, the token is read from the
\* slot and attached, the request leaves.
SendMutating(c) ==
    /\ pc[c] = "attempt"
    /\ kind[c] \in Mutating
    /\ IF CookieString.tag # "Ok"
       THEN /\ Conclude(c, CookieString)
            /\ UNCHANGED <<request, attempts, sent>>
       ELSE /\ request' = [request EXCEPT ![c] = Some([xcsrf |-> Some(Xcsrf)])]
            /\ attempts' = [attempts EXCEPT ![c] = @ + 1]
            /\ sent' = [sent EXCEPT ![c] = Append(@, Invocation(c))]
            /\ pc' = [pc EXCEPT ![c] = "flight"]
            /\ UNCHANGED <<outcomes, result, overw>>
    /\ UNCHANGED <<roblosecurity, xcsrf, user_id, username, display_name,
                   server_token, kind, info, wrote, clobbered, held, classify_vars>>

\* A classifier that stores the token of a 403 itself, as the response
\* arrives.
ReceiveMutatingStoringToken(c) ==
    /\ pc[c] = "flight"
    /\ kind[c] \in Mutating
    /\ \E e \in InternalResults(kind[c], server_token) :
          /\ IF e = Panicked
             THEN /\ pc' = [pc EXCEPT ![c] = "panicked"]
                  /\ overw' = [overw EXCEPT ![c] = None]
                  /\ UNCHANGED <<outcomes, result>>
             ELSE Conclude(c, e)
          /\ xcsrf' = IF e.tag = "InvalidXcsrf" THEN e.xcsrf ELSE xcsrf
    /\ request' = [request EXCEPT ![c] = None]
    /\ UNCHANGED <<roblosecurity, user_id, username, display_name,
                   server_token, kind, attempts, info, wrote, clobbered,
                   held, sent, classify_vars>>

\* A retry that stores the token of the second InvalidXcsrf before it
\* returns it.
ReceiveMutatingStoringSecond(c) ==
    /\ pc[c] = "flight"
    /\ kind[c] \in Mutating
    /\ \E e \in InternalResults(kind[c], server_token) :
          /\ IF e = Panicked
             THEN /\ pc' = [pc EXCEPT ![c] = "panicked"]
                  /\ overw' = [overw EXCEPT ![c] = None]
                  /\ UNCHANGED <<outcomes, result>>
             ELSE Conclude(c, e)
          /\ xcsrf' = IF e.tag = "InvalidXcsrf" /\ Len(outcomes[c]) = 1
                      THEN e.xcsrf
                      ELSE xcsrf
    /\ request' = [request EXCEPT ![c] = None]
    /\ UNCHANGED <<roblosecurity, user_id, username, display_name,
                   server_token, kind, attempts, info, wrote, clobbered,
                   held, sent, classify_vars>>

\* The exchange completes and *_internal returns; a panic ends the call.
ReceiveMutating(c) ==
    /\ pc[c] = "flight"
    /\ kind[c] \in Mutating
    /\ \E e \in InternalResults(kind[c], server_token) :
          IF e = Panicked
          THEN /\ pc' = [pc EXCEPT ![c] = "panicked"]
               /\ overw' = [overw EXCEPT ![c] = None]
               /\ UNCHANGED <<outcomes, result>>
          ELSE Conclude(c, e)
    /\ request' = [request EXCEPT ![c] = None]
    /\ UNCHANGED <<roblosecurity, xcsrf, user_id, username, display_name,
                   server_token, kind, attempts, info, wrote, clobbered,
                   held, sent, classify_vars>>

\* Calls that hold an InvalidXcsrf and have not returned yet.
Refreshing(c) == pc[c] \notin Finished /\ kind[c] \in Mutating /\ Len(outcomes[c]) >= 1

\* A retry that goes on to the second invocation without set_xcsrf.
RefreshWithoutWrite(c) ==
    /\ pc[c] = "refresh"
    /\ pc' = [pc EXCEPT ![c] = "attempt"]
    /\ UNCHANGED <<roblosecurity, xcsrf, user_id, username, display_name,
                   server_token, kind, request, attempts, outcomes, result, info,
                   wrote, overw, clobbered, held, sent, classify_vars>>

\* self.set_xcsrf(new_xcsrf).await, then on to the second invocation.
Refresh(c) ==
    /\ pc[c] = "refresh"
    /\ LET new_xcsrf == outcomes[c][1].xcsrf
       IN  /\ xcsrf' = SetXcsrf(xcsrf, new_xcsrf)
           /\ overw' = [d \in Calls |->
                          IF d = c THEN None
                          ELSE IF Refreshing(d) THEN Some(xcsrf')
                          ELSE overw[d]]
    /\ wrote' = [wrote EXCEPT ![c] = @ + 1]
    /\ pc' = [pc EXCEPT ![c] = "attempt"]
    /\ UNCHANGED <<roblosecurity, user_id, username, display_name, server_token,
                   kind, request, attempts, outcomes, result, info, clobbered,
                   held, sent, classify_vars>>

\* The remote service moves on to its next token.
Rotate ==
    /\ server_token < MaxToken
    /\ server_token' = server_token + 1
    /\ UNCHANGED <<roblosecurity, xcsrf, user_id, username, display_name,
                   pc, kind, request, attempts, outcomes, result, info, wrote,
                   overw, clobbered, held, sent, classify_vars>>

\* The cell a call at `at` writes, and the guards held by any call.
CellAt(at) ==
    CASE at = "cache_user_id" -> "user_id"
      [] at = "cache_username" -> "username"
      [] OTHER -> "display_name"
AllHeld == UNION {held[d] : d \in Calls}

\* The cache cell an accessor reads.
Cached(k) ==
    CASE k = "user_id" -> user_id
      [] k = "username" -> username
      [] OTHER -> display_name

\* The field of a UserInformation an accessor returns.
Field(k, user_information) ==
    CASE k = "user_id" -> user_information.user_id
      [] k = "username" -> user_information.username
      [] OTHER -> user_information.display_name

\* Client::user_id, Client::username or Client::display_name is called.
CallAccessor(c, k) ==
    /\ k \in Accessors
    /\ Begin(c, k, "lookup")
    /\ result' = [result EXCEPT ![c] = NoResult]
    /\ UNCHANGED <<roblosecurity, xcsrf, user_id, username, display_name,
                   server_token, held, classify_vars>>

\* The accessor locks its cell: the cached value is copied out if there is
\* one, else the call goes on to user_information_internal.
Lookup(c) ==
    /\ pc[c] = "lookup"
    /\ kind[c] \notin AllHeld
    /\ IF Cached(kind[c]) # None
       THEN /\ pc' = [pc EXCEPT ![c] = "done"]
            /\ result' = [result EXCEPT ![c] = Ok(Cached(kind[c])[1])]
       ELSE /\ pc' = [pc EXCEPT ![c] = "fetch"]
            /\ UNCHANGED result
    /\ UNCHANGED <<roblosecurity, xcsrf, user_id, username, display_name,
                   server_token, kind, request, attempts, outcomes, info, wrote,
                   overw, clobbered, held, sent, classify_vars>>

\* A user_information_internal that sends before it looks at the
\* roblosecurity.
SendUserInformationUnchecked(c) ==
    /\ pc[c] = "fetch"
    /\ request' = [request EXCEPT ![c] = Some([xcsrf |-> None])]
    /\ attempts' = [attempts EXCEPT ![c] = @ + 1]
    /\ pc' = [pc EXCEPT ![c] = "flight"]
    /\ UNCHANGED <<roblosecurity, xcsrf, user_id, username, display_name,
                   server_token, kind, outcomes, result, info, wrote, overw,
                   clobbered, held, sent, classify_vars>>

\* user_information_internal up to send(): without a roblosecurity it
\* returns RoblosecurityNotSet, else the request leaves.
SendUserInformation(c) ==
    /\ pc[c] = "fetch"
    /\ IF roblosecurity = None
       THEN /\ pc' = [pc EXCEPT ![c] = "done"]
            /\ outcomes' = [outcomes EXCEPT ![c] = Append(@, RoblosecurityNotSet)]
            /\ result' = [result EXCEPT ![c] = RoblosecurityNotSet]
            /\ UNCHANGED <<request, attempts>>
       ELSE /\ request' = [request EXCEPT ![c] = Some([xcsrf |-> None])]
            /\ attempts' = [attempts EXCEPT ![c] = @ + 1]
            /\ pc' = [pc EXCEPT ![c] = "flight"]
            /\ UNCHANGED <<outcomes, result>>
    /\ UNCHANGED <<roblosecurity, xcsrf, user_id, username, display_name,
                   server_token, kind, info, wrote, overw, clobbered,
                   held, sent, classify_vars>>

\* A user_information_internal that empties the cache when the fetch fails.
ReceiveUserInformationClearing(c) ==
    /\ pc[c] = "flight"
    /\ kind[c] \in Accessors
    /\ \E e \in InternalResults(kind[c], server_token) :
          CASE e = Panicked ->
                 /\ pc' = [pc EXCEPT ![c] = "panicked"]
                 /\ UNCHANGED <<outcomes, result, info, user_id, username, display_name>>
            [] e # Panicked /\ e.tag # "Ok" ->
                 /\ pc' = [pc EXCEPT ![c] = "done"]
                 /\ outcomes' = [outcomes EXCEPT ![c] = Append(@, e)]
                 /\ result' = [result EXCEPT ![c] = e]
                 /\ user_id' = None
                 /\ username' = None
                 /\ display_name' = None
                 /\ UNCHANGED info
            [] OTHER ->
                 /\ pc' = [pc EXCEPT ![c] = "cache_user_id"]
                 /\ outcomes' = [outcomes EXCEPT ![c] = Append(@, e)]
                 /\ info' = [info EXCEPT ![c] = Some(e.value)]
                 /\ UNCHANGED <<result, user_id, username, display_name>>
    /\ request' = [request EXCEPT ![c] = None]
    /\ UNCHANGED <<roblosecurity, xcsrf, server_token, kind, attempts, wrote,
                   overw, clobbered, held, sent, classify_vars>>

\* The exchange completes: validate_request_result and parse_to_raw; an error
\* is returned, a UserInformation goes on to be cached.
ReceiveUserInformation(c) ==
    /\ pc[c] = "flight"
    /\ kind[c] \in Accessors
    /\ \E e \in InternalResults(kind[c], server_token) :
          CASE e = Panicked ->
                 /\ pc' = [pc EXCEPT ![c] = "panicked"]
                 /\ UNCHANGED <<outcomes, result, info>>
            [] e # Panicked /\ e.tag # "Ok" ->
                 /\ pc' = [pc EXCEPT ![c] = "done"]
                 /\ outcomes' = [outcomes EXCEPT ![c] = Append(@, e)]
                 /\ result' = [result EXCEPT ![c] = e]
                 /\ UNCHANGED info
            [] OTHER ->
                 /\ pc' = [pc EXCEPT ![c] = "cache_user_id"]
                 /\ outcomes' = [outcomes EXCEPT ![c] = Append(@, e)]
                 /\ info' = [info EXCEPT ![c] = Some(e.value)]
                 /\ UNCHANGED result
    /\ request' = [request EXCEPT ![c] = None]
    /\ UNCHANGED <<roblosecurity, xcsrf, user_id, username, display_name,
                   server_token, kind, attempts, wrote, overw, clobbered,
                   held, sent, classify_vars>>

Caching(c) == pc[c] \in {"cache_user_id", "cache_username", "cache_display_name"}

\* self.<cell>.lock().unwrap(): the call gets the guard of the cell it is
\* about to write once no call holds it.
LockCache(c) ==
    /\ Caching(c)
    /\ CellAt(pc[c]) \notin AllHeld
    /\ held' = [held EXCEPT ![c] = @ \cup {CellAt(pc[c])}]
    /\ UNCHANGED <<roblosecurity, xcsrf, user_id, username, display_name,
                   server_token, pc, kind, request, attempts, outcomes, result,
                   info, wrote, overw, clobbered, sent, classify_vars>>

\* A write that binds its guard to a name, so that the guard lives on to the
\* end of the function.
CacheWriteKeepingGuard(c, next) ==
    /\ pc' = [pc EXCEPT ![c] = next]
    /\ held' = [held EXCEPT ![c] = IF next = "done" THEN {} ELSE @]
    /\ clobbered' = [d \in Calls |-> IF d # c /\ Caching(d) THEN TRUE ELSE clobbered[d]]
    /\ UNCHANGED <<roblosecurity, xcsrf, server_token, kind, request, attempts,
                   outcomes, info, wrote, overw, sent, classify_vars>>

\* The write of call c to a cache cell: the assignment through the guard,
\* which is dropped at the end of the statement.
CacheWrite(c, next) ==
    /\ pc' = [pc EXCEPT ![c] = next]
    /\ held' = [held EXCEPT ![c] = {}]
    /\ clobbered' = [d \in Calls |-> IF d # c /\ Caching(d) THEN TRUE ELSE clobbered[d]]
    /\ UNCHANGED <<roblosecurity, xcsrf, server_token, kind, request, attempts,
                   outcomes, info, wrote, overw, sent, classify_vars>>

\* *self.user_id.lock().unwrap() = Some(user_information.user_id as u64);
CacheUserId(c) ==
    /\ pc[c] = "cache_user_id"
    /\ "user_id" \in held[c]
    /\ user_id' = Some(info[c][1].user_id)
    /\ CacheWrite(c, "cache_username")
    /\ UNCHANGED <<username, display_name, result>>

\* A write of the display name to the username cell.
CacheUsernameFromDisplayName(c) ==
    /\ pc[c] = "cache_username"
    /\ "username" \in held[c]
    /\ username' = Some(info[c][1].display_name)
    /\ CacheWrite(c, "cache_display_name")
    /\ UNCHANGED <<user_id, display_name, result>>

\* *self.username.lock().unwrap() = Some(user_information.username.clone());
CacheUsername(c) ==
    /\ pc[c] = "cache_username"
    /\ "username" \in held[c]
    /\ username' = Some(info[c][1].username)
    /\ CacheWrite(c, "cache_display_name")
    /\ UNCHANGED <<user_id, display_name, result>>

\* *self.display_name.lock().unwrap() = Some(..display_name.clone()); then
\* Ok(user_information), of which the accessor returns its field.
CacheDisplayName(c) ==
    /\ pc[c] = "cache_display_name"
    /\ "display_name" \in held[c]
    /\ display_name' = Some(info[c][1].display_name)
    /\ CacheWrite(c, "done")
    /\ result' = [result EXCEPT ![c] = Ok(Field(kind[c], info[c][1]))]
    /\ UNCHANGED <<user_id, username>>

Init ==
    /\ SessionInit
    /\ exchange = TransportFailure
    /\ classified = NotClassified
    /\ argument = NoArgument
    /\ wire = None

\* The retry protocol of the mutating endpoints against a service that
\* rotates its token: the calls that read and write xcsrf.
RetryNext ==
    \/ \E c \in Calls, k \in Mutating : CallMutating(c, k)
    \/ \E c \in Calls : SendMutating(c)
    \/ \E c \in Calls : ReceiveMutating(c)
    \/ \E c \in Calls : Refresh(c)
    \/ Rotate

RetrySpec == Init /\ [][RetryNext]_vars

\* The same under a fair scheduler and a network on which every request
\* completes: no call that can send, receive or refresh waits forever.
RetryFairness ==
    \A c \in Calls :
        /\ WF_vars(SendMutating(c))
        /\ WF_vars(ReceiveMutating(c))
        /\ WF_vars(Refresh(c))

RetryFairSpec == RetrySpec /\ RetryFairness

\* The accessors of the cached user information: the calls that read and
\* write user_id, username and display_name.
IdentityNext ==
    \/ \E c \in Calls, k \in Accessors : CallAccessor(c, k)
    \/ \E c \in Calls : Lookup(c)
    \/ \E c \in Calls : SendUserInformation(c)
    \/ \E c \in Calls : ReceiveUserInformation(c)
    \/ \E c \in Calls : LockCache(c)
    \/ \E c \in Calls : CacheUserId(c)
    \/ \E c \in Calls : CacheUsername(c)
    \/ \E c \in Calls : CacheDisplayName(c)

IdentitySpec == Init /\ [][IdentityNext]_vars

\* Calls of both kinds on one Client.
SessionNext == RetryNext \/ IdentityNext

SessionSpec == Init /\ [][SessionNext]_vars

(***************************************************************************)
(* The classifier on its own: every exchange is handed to                  *)
(* validate_request_result once.                                           *)
(***************************************************************************)
ClassifyInit ==
    /\ SessionInit
    /\ exchange \in RequestResults
    /\ classified = NotClassified
    /\ argument = NoArgument
    /\ wire = None

Classify ==
    /\ classified = NotClassified
    /\ classified' = ValidateRequestResult(exchange)
    /\ UNCHANGED <<exchange, argument, wire, session_vars>>

\* purchase_limited_internal from validate_request_result on, on its own.
ParsePurchase ==
    /\ classified = NotClassified
    /\ classified' = PurchaseLimitedResult(exchange)
    /\ UNCHANGED <<exchange, argument, wire, session_vars>>

PurchaseSpec == ClassifyInit /\ [][ParsePurchase]_vars

ClassifySpec == ClassifyInit /\ [][Classify]_vars

(***************************************************************************)
(* The listing methods on their own: resellers and user_sales, from their  *)
(* arguments to the request target and the page they return.               *)
(***************************************************************************)
\* Strings are sequences of characters. A cursor is any string; "=", "&" and
\* "#" are the characters a URL reads as syntax.
CursorChars == {"a", "=", "&", "#"}
Strings(n) == UNION {[1 .. k -> CursorChars] : k \in 0 .. n}
Cursors == Strings(MaxCursor)

\* Limit::to_u64, and the decimal text format! writes for a number.
LimitToU64(limit) == IF limit = "Ten" THEN 10 ELSE 100
Display(n) ==
    CASE n = 1 -> "1"
      [] n = 10 -> "10"
      [] OTHER -> "100"

\* format!("{}{}{}?cursor={}&limit={}", RESELLERS_API_PART_1, item_id,
\*         RESELLERS_API_PART_2, cursor, limit)
ResellersUrl(item_id, cursor, limit) ==
    <<"https://economy.roblox.com/v1/assets/", Display(item_id), "/resellers",
      "?", "cursor", "=">> \o cursor \o <<"&", "limit", "=", Display(limit)>>

\* format!("{}{}{}?cursor={}&limit={}&transactionType={}", ...)
UserSalesUrl(uid, cursor, limit) ==
    <<"https://economy.roblox.com/v2/users/", Display(uid), "/transactions",
      "?", "cursor", "=">> \o cursor \o
    <<"&", "limit", "=", Display(limit), "&", "transactionType", "=", "Sale">>

\* The least element of a non-empty set of numbers.
Least(S) == CHOOSE i \in S : \A j \in S : i <= j

\* reqwest's get(url): the string is parsed as a URL, and the request target
\* is its path and query; what follows the first "#" is the fragment, which
\* stays with the client.
RequestTarget(url) ==
    LET hashes == {i \in 1 .. Len(url) : url[i] = "#"}
    IN  IF hashes = {} THEN url ELSE SubSeq(url, 1, Least(hashes) - 1)

\* The value the service reads for a query parameter: the query is split at
\* each "&", a pair at its first "=".
QueryValue(target, key) ==
    LET starts == {i \in 2 .. Len(target) - 1 :
                      /\ target[i] = key
                      /\ target[i + 1] = "="
                      /\ target[i - 1] \in {"?", "&"}}
    IN  IF starts = {} THEN None
        ELSE LET from == Least(starts) + 2
                 ends == {j \in from .. Len(target) : target[j] = "&"}
                 upto == IF ends = {} THEN Len(target) ELSE Least(ends) - 1
             IN  Some(SubSeq(target, from, upto))

\* The entries of request_types::ResellersResponse::data and
\* request_types::UserSalesResponse::data.
RawListings ==
    {[userAssetId |-> 1, price |-> 5, seller |-> [id |-> 2, name |-> "b"],
      serialNumber |-> None],
     [userAssetId |-> 3, price |-> 7, seller |-> [id |-> 4, name |-> "d"],
      serialNumber |-> Some(9)]}
RawSales ==
    {[id |-> 1, isPending |-> FALSE, agent |-> [id |-> 2, name |-> "b"],
      details |-> [id |-> 3, name |-> "hat"], currency |-> [amount |-> 7]],
     [id |-> 4, isPending |-> TRUE, agent |-> [id |-> 5, name |-> "e"],
      details |-> [id |-> 6, name |-> "cap"], currency |-> [amount |-> 8]]}
Lists(S, n) == UNION {[1 .. k -> S] : k \in 0 .. n}

\* The cursors the service hands out with a page.
NextPageCursors == {None, Some(<< >>), Some(<<"a">>), Some(<<"a", "#">>)}
PageBodies ==
    {[shape |-> "resellers", data |-> d, nextPageCursor |-> n] :
        d \in Lists(RawListings, MaxItems), n \in NextPageCursors}
    \cup
    {[shape |-> "user_sales", data |-> d, nextPageCursor |-> n] :
        d \in Lists(RawSales, MaxItems), n \in NextPageCursors}
PageAnswers ==
    {TransportFailure} \cup
    {Response(s, None, b) : s \in Statuses, b \in PageBodies \cup {GarbageBody}}

\* The Listing built from one entry of raw.data.
Listing(raw) ==
    [uaid |-> raw.userAssetId,
     price |-> raw.price,
     reseller |-> [user_id |-> raw.seller.id, name |-> raw.seller.name],
     serial_number |-> raw.serialNumber]

\* The UserSale built from one entry of raw.data.
UserSale(raw) ==
    [sale_id |-> raw.id,
     asset_id |-> raw.details.id,
     robux_received |-> raw.currency.amount,
     is_pending |-> raw.isPending,
     user_id |-> raw.agent.id,
     user_display_name |-> raw.agent.name,
     asset_name |-> raw.details.name]

\* A listing method's effect: the request target it sent, if it sent one, and
\* what it returned.
Listed(target, returned) == [sent |-> target, returned |-> returned]

\* Option<String>::unwrap_or_default
UnwrapOrDefault(cursor) == IF cursor = None THEN << >> ELSE cursor[1]

\* Client::resellers
Resellers(args, request_result) ==
    LET limit == LimitToU64(args.limit)
        cursor == UnwrapOrDefault(args.cursor)
        formatted_url == ResellersUrl(args.item_id, cursor, limit)
        validated == ValidateRequestResult(request_result)
        raw == ParseToRaw("resellers", validated.value)
    IN  IF CookieString.tag # "Ok" THEN Listed(None, CookieString)
        ELSE IF validated.tag # "Ok"
        THEN Listed(Some(RequestTarget(formatted_url)), validated)
        ELSE IF raw.tag # "Ok"
        THEN Listed(Some(RequestTarget(formatted_url)), raw)
        ELSE Listed(Some(RequestTarget(formatted_url)),
                    Ok(<<[i \in 1 .. Len(raw.value.data) |-> Listing(raw.value.data[i])],
                         raw.value.nextPageCursor>>))

\* Client::user_sales; args.identity is what self.user_id().await returned.
UserSales(args, request_result) ==
    LET limit == LimitToU64(args.limit)
        cursor == UnwrapOrDefault(args.cursor)
        formatted_url == UserSalesUrl(args.identity.value, cursor, limit)
        validated == ValidateRequestResult(request_result)
        raw == ParseToRaw("user_sales", validated.value)
    IN  IF args.identity.tag # "Ok" THEN Listed(None, args.identity)
        ELSE IF CookieString.tag # "Ok" THEN Listed(None, CookieString)
        ELSE IF validated.tag # "Ok"
        THEN Listed(Some(RequestTarget(formatted_url)), validated)
        ELSE IF raw.tag # "Ok"
        THEN Listed(Some(RequestTarget(formatted_url)), raw)
        ELSE Listed(Some(RequestTarget(formatted_url)),
                    Ok(<<[i \in 1 .. Len(raw.value.data) |-> UserSale(raw.value.data[i])],
                         raw.value.nextPageCursor>>))

\* The calls of the listing methods: every cursor, both limits, and for
\* user_sales a user id that was resolved or was not.
Arguments ==
    {[op |-> o, item_id |-> 1, limit |-> l, cursor |-> c, identity |-> u] :
        o \in {"resellers", "user_sales"},
        l \in {"Ten", "Hundred"},
        c \in {None} \cup {Some(x) : x \in Cursors},
        u \in {Ok(1), RoblosecurityNotSet, ReqwestError}}

PageInit ==
    /\ SessionInit
    /\ exchange \in PageAnswers
    /\ classified = NotClassified
    /\ argument \in Arguments
    /\ (roblosecurity = None) = (argument.identity = RoblosecurityNotSet)
    /\ wire = None

ListPage ==
    /\ classified = NotClassified
    /\ LET listed == IF argument.op = "resellers"
                     THEN Resellers(argument, exchange)
                     ELSE UserSales(argument, exchange)
       IN  /\ classified' = listed.returned
           /\ wire' = listed.sent
    /\ UNCHANGED <<exchange, argument, session_vars>>

PageSpec == PageInit /\ [][ListPage]_vars

(***************************************************************************)
(* The retry protocol of put_limited_on_sale, take_limited_off_sale and    *)
(* purchase_limited.                                                       *)
(***************************************************************************)
Stale(e) == e.tag = "InvalidXcsrf"

\* What the first and the second invocation of *_internal of call c returned.
FirstOutcome(c) == outcomes[c][1]
SecondOutcome(c) == outcomes[c][2]

\* C1: a mutating call whose first and second attempt both end in
\* InvalidXcsrf has put exactly two requests on the network, has returned,
\* and has returned the second InvalidXcsrf; there is no third attempt.
C1_TwoStaleTokensReturnSecond ==
    \A c \in Calls :
        (/\ kind[c] \in Mutating
         /\ Len(outcomes[c]) >= 2
         /\ Stale(FirstOutcome(c))
         /\ Stale(SecondOutcome(c)))
        => /\ pc[c] = "done"
           /\ attempts[c] = 2
           /\ Len(outcomes[c]) = 2
           /\ request[c] = None
           /\ result[c] = SecondOutcome(c)

\* Some call of each mutating method has returned a second InvalidXcsrf, and
\* one of them a token other than the first one's.
C1_Witness ==
    /\ \E c \in Calls :
          /\ kind[c] = "purchase_limited"
          /\ pc[c] = "done"
          /\ Len(outcomes[c]) = 2
          /\ Stale(FirstOutcome(c))
          /\ Stale(SecondOutcome(c))
          /\ SecondOutcome(c).xcsrf # FirstOutcome(c).xcsrf
          /\ result[c] = SecondOutcome(c)
    /\ \E c \in Calls :
          /\ kind[c] = "put_limited_on_sale"
          /\ pc[c] = "done"
          /\ Len(outcomes[c]) = 2
          /\ Stale(SecondOutcome(c))

\* The step in which a call returns Ok from its second attempt ends its second
\* request; the call has written xcsrf once, and xcsrf holds the token of its
\* InvalidXcsrf unless another call has written it since.
C2_Step ==
    \A c \in Calls :
        (/\ kind[c] \in Mutating
         /\ pc[c] = "flight"
         /\ pc'[c] = "done"
         /\ Len(outcomes'[c]) = 2
         /\ Stale(outcomes'[c][1])
         /\ outcomes'[c][2].tag = "Ok")
        => /\ attempts'[c] = 2
           /\ request'[c] = None
           /\ result'[c] = Ok(Unit)
           /\ wrote'[c] = 1
           /\ overw[c] = None => xcsrf' = outcomes'[c][1].xcsrf

\* C2: a mutating call whose first attempt ends in InvalidXcsrf(new_xcsrf) and
\* whose second ends in Ok makes exactly two attempts and returns Ok, and
\* xcsrf holds new_xcsrf afterwards if no other call has written it.
C2_RefreshThenSuccess == [][C2_Step]_vars

\* A call has returned Ok from its second attempt and xcsrf holds the token
\* its first attempt was answered with, which is not the service's first.
C2_Witness ==
    \E c \in Calls :
        /\ kind[c] \in Mutating
        /\ pc[c] = "done"
        /\ attempts[c] = 2
        /\ Len(outcomes[c]) = 2
        /\ Stale(FirstOutcome(c))
        /\ result[c] = Ok(Unit)
        /\ xcsrf = FirstOutcome(c).xcsrf
        /\ xcsrf = MaxToken

\* A call whose first attempt ended in anything but InvalidXcsrf has returned
\* that outcome after that one attempt (after none, if the outcome is the
\* missing roblosecurity) and has not written xcsrf.
C3_Returned ==
    \A c \in Calls :
        (/\ kind[c] \in Mutating
         /\ Len(outcomes[c]) >= 1
         /\ ~Stale(FirstOutcome(c)))
        => /\ pc[c] = "done"
           /\ Len(outcomes[c]) = 1
           /\ attempts[c] = IF FirstOutcome(c) = RoblosecurityNotSet THEN 0 ELSE 1
           /\ request[c] = None
           /\ wrote[c] = 0
           /\ result[c] = FirstOutcome(c)

\* No step of a call that is not at its set_xcsrf changes xcsrf.
C3_NoWrite ==
    \A c \in Calls :
        (pc'[c] # pc[c] /\ pc[c] # "refresh") => xcsrf' = xcsrf

\* C3: a mutating call whose first attempt ends in anything but InvalidXcsrf
\* makes that one attempt, does not write xcsrf, and returns that outcome
\* unchanged.
C3_OtherOutcomeReturnedAtOnce == [](C3_Returned) /\ [][C3_NoWrite]_vars

\* A call has returned a remote error after one attempt while xcsrf holds a
\* token another call has written, and a call has returned Ok at once.
C3_Witness ==
    /\ \E c \in Calls :
          /\ kind[c] \in Mutating
          /\ pc[c] = "done"
          /\ attempts[c] = 1
          /\ wrote[c] = 0
          /\ result[c].tag = "UnknownRobloxErrorCode"
          /\ xcsrf # EmptyXcsrf
    /\ \E c \in Calls :
          /\ kind[c] \in Mutating
          /\ pc[c] = "done"
          /\ attempts[c] = 1
          /\ result[c] = Ok(Unit)

\* The token on the request of a call's second attempt.
SecondAttemptToken(c) == request[c][1].xcsrf[1]
OnSecondAttempt(c) == kind[c] \in Mutating /\ pc[c] = "flight" /\ attempts[c] = 2

\* C4, as the specification has it: the token on a second attempt is never
\* older than the token the call got with its InvalidXcsrf.
C4_NeverOlderThanReceived ==
    \A c \in Calls :
        OnSecondAttempt(c) => SecondAttemptToken(c) >= FirstOutcome(c).xcsrf

\* The step that puts a second attempt on the network attaches the token the
\* call wrote itself if no other call has written xcsrf since, and else the
\* token of the last other write.
C4_Step ==
    \A c \in Calls :
        (/\ kind[c] \in Mutating
         /\ pc[c] = "attempt"
         /\ pc'[c] = "flight"
         /\ attempts'[c] = 2)
        => request'[c] = Some([xcsrf |->
               Some(IF overw[c] = None THEN FirstOutcome(c).xcsrf ELSE overw[c][1])])

\* C4, corrected: the second attempt carries what xcsrf holds when its request
\* is built: the call's own token, or that of the last racing set_xcsrf, which
\* can be the older one.
C4_SecondAttemptReadsSlot == [][C4_Step]_vars

\* A second attempt is on the network with a token older than the one the
\* call got and wrote, another call having written xcsrf in between.
C4_Witness ==
    \E c \in Calls :
        /\ OnSecondAttempt(c)
        /\ wrote[c] = 1
        /\ SecondAttemptToken(c) < FirstOutcome(c).xcsrf
        /\ SecondAttemptToken(c) # EmptyXcsrf

\* C5, as the specification has it: xcsrf never goes back to an older token.
C5_NeverRollsBack == [][xcsrf' >= xcsrf]_vars

\* xcsrf changes in a set_xcsrf only, to the token of the call's InvalidXcsrf,
\* and to no older token than it held unless another call has written it
\* since the call got that token.
C5_Step ==
    /\ xcsrf' # xcsrf => \E c \in Calls : pc[c] = "refresh" /\ pc'[c] # "refresh"
    /\ \A c \in Calls :
          (pc[c] = "refresh" /\ pc'[c] # "refresh")
          => /\ xcsrf' = FirstOutcome(c).xcsrf
             /\ overw[c] = None => xcsrf' >= xcsrf

\* C5, corrected: xcsrf is replaced only by the token a refreshing call was
\* answered with, and goes back to an older token only when another call has
\* written it since that token was issued: the last writer wins.
C5_LastWriterWins == [][C5_Step]_vars

\* xcsrf holds an older token than one it has held: a call is on its second
\* attempt with the newest token, which it wrote, and xcsrf holds an older
\* one of the service's tokens.
C5_Witness ==
    \E c \in Calls :
        /\ OnSecondAttempt(c)
        /\ FirstOutcome(c).xcsrf = MaxToken
        /\ SecondAttemptToken(c) = MaxToken
        /\ xcsrf # EmptyXcsrf
        /\ xcsrf < MaxToken

(***************************************************************************)
(* The cached user information.                                            *)
(***************************************************************************)
\* The three cells hold the fields of one UserInformation.
CacheHolds(user_information) ==
    /\ user_id = Some(user_information.user_id)
    /\ username = Some(user_information.username)
    /\ display_name = Some(user_information.display_name)

\* Call c has fetched the user information, cached it and returned.
Resolved(c) ==
    /\ kind[c] \in Accessors
    /\ pc[c] = "done"
    /\ attempts[c] = 1
    /\ result[c].tag = "Ok"

\* C6: when all calls have fetched the user information concurrently and
\* returned it, the cache holds the user information of one of their
\* responses, not fields of different ones.
C6_CacheIsOneResponse ==
    (\A c \in Calls : Resolved(c)) => \E c \in Calls : CacheHolds(info[c][1])

\* With a roblosecurity, an accessor has put no request on the network before
\* its lookup failed and one after, and what it returns on Ok is its field of
\* the response's user information.
C7_Counts ==
    \A c \in Calls :
        (kind[c] \in Accessors /\ roblosecurity # None)
        => /\ pc[c] \in {"lookup", "fetch"} => attempts[c] = 0
           /\ pc[c] = "flight" \/ Caching(c) \/ pc[c] = "panicked" => attempts[c] = 1
           /\ pc[c] = "done" => attempts[c] = Len(outcomes[c])
           /\ Resolved(c) => result[c] = Ok(Field(kind[c], FirstOutcome(c).value))

\* A lookup that finds its cell filled returns the cell's value at once; the
\* last cache write of a call leaves the response's user information in the
\* cache if no other call has written the cache meanwhile.
C7_Step ==
    \A c \in Calls :
        /\ (pc[c] = "lookup" /\ pc'[c] # "lookup")
           => IF Cached(kind[c]) # None
              THEN /\ pc'[c] = "done"
                   /\ attempts'[c] = 0
                   /\ result'[c] = Ok(Cached(kind[c])[1])
                   /\ UNCHANGED <<user_id, username, display_name>>
              ELSE pc'[c] = "fetch"
        /\ (pc[c] = "cache_display_name" /\ pc'[c] = "done" /\ ~clobbered[c])
           => /\ user_id' = Some(FirstOutcome(c).value.user_id)
              /\ username' = Some(FirstOutcome(c).value.username)
              /\ display_name' = Some(FirstOutcome(c).value.display_name)

\* C7: with a roblosecurity, an accessor that finds the cache empty puts one
\* request on the network and, on Ok, caches and returns the response's user
\* information; one that finds the cache filled returns the cached value and
\* puts nothing on the network.
C7_FetchOnceThenCached == [](C7_Counts) /\ [][C7_Step]_vars

\* One call has fetched and cached the username, and another, called after
\* it, has returned the cached display name without a request.
C7_Witness ==
    \E c, d \in Calls :
        /\ Resolved(c)
        /\ kind[c] = "username"
        /\ ~clobbered[c]
        /\ CacheHolds(info[c][1])
        /\ kind[d] = "display_name"
        /\ pc[d] = "done"
        /\ attempts[d] = 0
        /\ result[d] = Ok(info[c][1].display_name)

\* C8: without a roblosecurity an accessor returns RoblosecurityNotSet, no
\* request is ever put on the network, and the cache and xcsrf stay as they
\* were built.
C8_NoRoblosecurityNoRequest ==
    roblosecurity = None
    => /\ \A c \in Calls :
             /\ attempts[c] = 0
             /\ request[c] = None
             /\ pc[c] \in {"idle", "lookup", "fetch", "done"}
             /\ pc[c] = "done" => result[c] = RoblosecurityNotSet
       /\ user_id = None
       /\ username = None
       /\ display_name = None
       /\ xcsrf = EmptyXcsrf

\* Every call has returned RoblosecurityNotSet from an accessor.
C8_Witness ==
    /\ roblosecurity = None
    /\ \A c \in Calls :
          /\ kind[c] \in Accessors
          /\ pc[c] = "done"
          /\ result[c] = RoblosecurityNotSet
    /\ \E c \in Calls : kind[c] = "user_id"

(***************************************************************************)
(* The classification of a 403.                                            *)
(***************************************************************************)
\* The exchange is a 403 with the x-csrf-token header, and it has been
\* classified.
Classified403WithHeader ==
    /\ classified # NotClassified
    /\ exchange.ok
    /\ exchange.status = 403
    /\ exchange.xcsrf_header # None

\* The first entry of the exchange's error body, if it is one and has one.
FirstError ==
    IF JsonRobloxErrorResponse(exchange.body) = None THEN None
    ELSE First(JsonRobloxErrorResponse(exchange.body)[1])

Unparseable == JsonRobloxErrorResponse(exchange.body) = None

\* C9: a 403 with the x-csrf-token header whose body is no error body, or
\* whose first error has code 0, is classified InvalidXcsrf of the header's
\* value.
C9_HeaderAndZeroCodeIsInvalidXcsrf ==
    (/\ Classified403WithHeader
     /\ Unparseable \/ (FirstError # None /\ FirstError[1].code = 0))
    => classified = InvalidXcsrf(exchange.xcsrf_header[1].text)

\* What holds of C9: the same, for header values of visible ASCII.
C9_VisibleAsciiHeader ==
    (/\ Classified403WithHeader
     /\ exchange.xcsrf_header[1].visible_ascii
     /\ Unparseable \/ (FirstError # None /\ FirstError[1].code = 0))
    => classified = InvalidXcsrf(exchange.xcsrf_header[1].text)

\* C10: a 403 with the x-csrf-token header whose error body has a first
\* error of a code other than 0 is classified UnknownRobloxErrorCode of that
\* error's code and message, not InvalidXcsrf.
C10_HeaderAndNonzeroCodeIsRemoteError ==
    (/\ Classified403WithHeader
     /\ FirstError # None
     /\ FirstError[1].code # 0)
    => classified = UnknownRobloxErrorCode(FirstError[1].code, FirstError[1].message)

\* What holds of C10: the same, for header values of visible ASCII.
C10_VisibleAsciiHeader ==
    (/\ Classified403WithHeader
     /\ exchange.xcsrf_header[1].visible_ascii
     /\ FirstError # None
     /\ FirstError[1].code # 0)
    => classified = UnknownRobloxErrorCode(FirstError[1].code, FirstError[1].message)

\* A classification with InvalidXcsrf replaced by XcsrfNotReturned.
AsHeaderMissing(e) == IF e.tag = "InvalidXcsrf" THEN XcsrfNotReturned ELSE e

\* The exchange, with the x-csrf-token header set to token t.
WithXcsrfHeader(t) == [exchange EXCEPT !.xcsrf_header = Some(HeaderValue(t))]

\* C11: a 403 without the x-csrf-token header is classified as the same 403
\* with the header is, with XcsrfNotReturned in the place of InvalidXcsrf, and
\* so as XcsrfNotReturned or UnknownRobloxErrorCode only.
C11_HeaderAbsentMirrorsHeaderPresent ==
    (/\ classified # NotClassified
     /\ exchange.ok
     /\ exchange.status = 403
     /\ exchange.xcsrf_header = None)
    => /\ classified.tag \in {"XcsrfNotReturned", "UnknownRobloxErrorCode"}
       /\ \A t \in Tokens :
             classified = AsHeaderMissing(Process403(WithXcsrfHeader(t)))

\* What holds of C11: the same, for every body but an empty errors list.
C11_ExceptEmptyErrors ==
    (/\ classified # NotClassified
     /\ exchange.ok
     /\ exchange.status = 403
     /\ exchange.xcsrf_header = None
     /\ Unparseable \/ FirstError # None)
    => /\ classified.tag \in {"XcsrfNotReturned", "UnknownRobloxErrorCode"}
       /\ \A t \in Tokens :
             classified = AsHeaderMissing(Process403(WithXcsrfHeader(t)))

(***************************************************************************)
(* validate_request_result as a whole.                                     *)
(***************************************************************************)
\* The classification the status code alone decides.
ByStatus ==
    /\ ~exchange.ok => classified = ReqwestError
    /\ exchange.ok =>
          /\ exchange.status = 401 => classified = InvalidRoblosecurity
          /\ exchange.status = 429 => classified = TooManyRequests
          /\ exchange.status = 500 => classified = InternalServerError
          /\ exchange.status \notin {200, 400, 401, 403, 429, 500}
             => classified = UnidentifiedStatusCode(exchange.status)

\* C12: validate_request_result returns for every exchange; it returns Ok
\* exactly for a 200, ReqwestError for a transport failure, and for the
\* status codes 401, 429, 500 and the unlisted ones the error of that code.
C12_ValidateIsTotal ==
    classified # NotClassified
    => /\ classified # Panicked
       /\ classified.tag = "Ok" <=> (exchange.ok /\ exchange.status = 200)
       /\ ByStatus

\* What holds of C12: the same, but for the 403 that panics.
C12_ExceptPanic ==
    (classified # NotClassified /\ classified # Panicked)
    => /\ classified.tag = "Ok" <=> (exchange.ok /\ exchange.status = 200)
       /\ ByStatus

\* C13: a 400 whose body is an error body with a first error is classified
\* UnknownRobloxErrorCode of that error's code and message, whatever the code
\* and the later errors are; any other 400 is classified BadRequest.
C13_BadRequestOrFirstError ==
    (classified # NotClassified /\ exchange.ok /\ exchange.status = 400)
    => classified = IF FirstError # None
                    THEN UnknownRobloxErrorCode(FirstError[1].code, FirstError[1].message)
                    ELSE BadRequest

\* A 400 with two errors, the first of code 0 and the second of another code
\* and message, has been classified as the first.
C13_Witness ==
    /\ exchange.ok
    /\ exchange.status = 400
    /\ exchange.body.shape = "errors"
    /\ Len(exchange.body.errors) = 2
    /\ exchange.body.errors[1].code = 0
    /\ exchange.body.errors[2].code = 2
    /\ classified = UnknownRobloxErrorCode(0, "Token Validation Failed")

(***************************************************************************)
(* The outcome of a purchase.                                              *)
(***************************************************************************)
\* The exchange is a 200 with a purchase body, and purchase_limited_internal
\* has returned on it.
ParsedPurchase ==
    /\ classified # NotClassified
    /\ exchange.ok
    /\ exchange.status = 200
    /\ exchange.body.shape = "purchase"

KnownPhrases ==
    {PendingTransactionMsg, AlreadyOwnMsg, NotForSaleMsg, NotEnoughRobuxMsg,
     PriceChangedMsg}

\* C14: a purchase answered 200 with purchased = true is Ok whatever the
\* message; with purchased = false the not-for-sale phrase gives
\* ItemNotForSale and every message that is none of the known phrases gives
\* UnknownRobloxErrorMsg of that message.
C14_NotForSaleAndCatchAll ==
    ParsedPurchase
    => IF exchange.body.purchased
       THEN classified = Ok(Unit)
       ELSE /\ exchange.body.error_msg = NotForSaleMsg
               => classified = PurchaseLimitedError(PurchaseVariant("ItemNotForSale"))
            /\ exchange.body.error_msg \notin KnownPhrases
               => classified =
                    PurchaseLimitedError(UnknownRobloxErrorMsg(exchange.body.error_msg))

\* The not-for-sale phrase in lower case has been returned as an unknown
\* message, unchanged.
C14_Witness ==
    /\ ParsedPurchase
    /\ ~exchange.body.purchased
    /\ exchange.body.error_msg = "this item is not for sale."
    /\ classified =
         PurchaseLimitedError(UnknownRobloxErrorMsg("this item is not for sale."))

\* C15: with purchased = false each known phrase gives the variant of its own
\* reason: the pending-transaction phrase PendingTransaction, the
\* not-enough-robux phrase NotEnoughRobux, the price-changed phrase
\* PriceChanged, the already-own phrase CannotBuyOwnItem.
C15_EachPhraseItsOwnVariant ==
    (ParsedPurchase /\ ~exchange.body.purchased)
    => /\ exchange.body.error_msg = PendingTransactionMsg
          => classified = PurchaseLimitedError(PurchaseVariant("PendingTransaction"))
       /\ exchange.body.error_msg = NotEnoughRobuxMsg
          => classified = PurchaseLimitedError(PurchaseVariant("NotEnoughRobux"))
       /\ exchange.body.error_msg = PriceChangedMsg
          => classified = PurchaseLimitedError(PurchaseVariant("PriceChanged"))
       /\ exchange.body.error_msg = AlreadyOwnMsg
          => classified = PurchaseLimitedError(PurchaseVariant("CannotBuyOwnItem"))

\* What holds of C15: the same, but for the pending-transaction phrase.
C15_ExceptPendingTransaction ==
    (ParsedPurchase /\ ~exchange.body.purchased)
    => /\ exchange.body.error_msg = NotEnoughRobuxMsg
          => classified = PurchaseLimitedError(PurchaseVariant("NotEnoughRobux"))
       /\ exchange.body.error_msg = PriceChangedMsg
          => classified = PurchaseLimitedError(PurchaseVariant("PriceChanged"))
       /\ exchange.body.error_msg = AlreadyOwnMsg
          => classified = PurchaseLimitedError(PurchaseVariant("CannotBuyOwnItem"))

\* The n-th attempt of call c was answered 200 with purchased = false.
PurchaseFailedAt(c, n) ==
    /\ kind[c] = "purchase_limited"
    /\ Len(outcomes[c]) >= n
    /\ outcomes[c][n].tag = "PurchaseLimitedError"

\* C16: a purchase_limited whose attempt is answered 200 with purchased =
\* false returns that purchase error without another attempt: after one
\* request and no write of xcsrf if it was the first attempt, after two
\* requests and one write if it was the second.
C16_FailedPurchaseNotRetried ==
    \A c \in Calls :
        /\ PurchaseFailedAt(c, 1)
           => /\ pc[c] = "done"
              /\ Len(outcomes[c]) = 1
              /\ attempts[c] = 1
              /\ request[c] = None
              /\ wrote[c] = 0
              /\ result[c] = FirstOutcome(c)
        /\ PurchaseFailedAt(c, 2)
           => /\ pc[c] = "done"
              /\ Len(outcomes[c]) = 2
              /\ attempts[c] = 2
              /\ request[c] = None
              /\ wrote[c] = 1
              /\ result[c] = SecondOutcome(c)

\* One purchase has failed on its first attempt and another on its second,
\* after an InvalidXcsrf.
C16_Witness ==
    \E c, d \in Calls :
        /\ PurchaseFailedAt(c, 1)
        /\ result[c] = PurchaseLimitedError(PurchaseVariant("ItemNotForSale"))
        /\ PurchaseFailedAt(d, 2)
        /\ Stale(FirstOutcome(d))
        /\ pc[d] = "done"

(***************************************************************************)
(* Panics.                                                                 *)
(***************************************************************************)
\* The variants of RoboatError validate_request_result can return.
ErrorTags ==
    {"ReqwestError", "BadRequest", "InvalidRoblosecurity", "TooManyRequests",
     "InternalServerError", "MalformedResponse", "XcsrfNotReturned",
     "InvalidXcsrf", "UnidentifiedStatusCode", "UnknownRobloxErrorCode"}

\* C17: whatever the status code, the x-csrf-token header (absent, a string,
\* or bytes that are no string) and the body, validate_request_result returns
\* Ok or one error variant; it does not panic.
C17_NoPanic ==
    classified # NotClassified
    => /\ classified # Panicked
       /\ classified.tag \in {"Ok"} \cup ErrorTags

\* What holds of C17: no exchange but a 403 with a header that is no string
\* panics.
C17_PanicOnlyOnOpaqueHeader ==
    classified = Panicked
    <=> /\ classified # NotClassified
        /\ exchange.ok
        /\ exchange.status = 403
        /\ exchange.xcsrf_header = Some(OpaqueHeaderValue)

\* Call c has returned InvalidXcsrf to its caller.
ReturnedStale(c) == pc[c] = "done" /\ Stale(result[c])

\* C18: no call, mutating or accessor, ever returns InvalidXcsrf to its
\* caller.
C18_NeverReturned == \A c \in Calls : ~ReturnedStale(c)

\* C18, as the code has it: a mutating call returns InvalidXcsrf only as the
\* outcome of its second attempt, the first having been InvalidXcsrf too and
\* its token written; an accessor, which has no retry, returns InvalidXcsrf
\* whenever its one request was answered so.
C18_OnlySecondOrUnretried ==
    \A c \in Calls :
        ReturnedStale(c) =>
            IF kind[c] \in Mutating
            THEN /\ Len(outcomes[c]) = 2
                 /\ attempts[c] = 2
                 /\ Stale(FirstOutcome(c))
                 /\ result[c] = SecondOutcome(c)
                 /\ wrote[c] = 1
            ELSE /\ Len(outcomes[c]) = 1
                 /\ result[c] = FirstOutcome(c)
                 /\ wrote[c] = 0

C18_Witness ==
    /\ \E c \in Calls : ReturnedStale(c) /\ kind[c] \in Mutating
    /\ \E c \in Calls : ReturnedStale(c) /\ kind[c] \in Accessors

\* Call c is blocked in lock(): the Mutex it needs next is held.
Waiting(c) ==
    \/ pc[c] = "lookup" /\ kind[c] \in AllHeld
    \/ Caching(c) /\ CellAt(pc[c]) \notin held[c] /\ CellAt(pc[c]) \in AllHeld

\* A step of call c after it was started.
StepOf(c) ==
    \/ SendMutating(c)
    \/ ReceiveMutating(c)
    \/ Refresh(c)
    \/ Lookup(c)
    \/ SendUserInformation(c)
    \/ ReceiveUserInformation(c)
    \/ LockCache(c)
    \/ CacheUserId(c)
    \/ CacheUsername(c)
    \/ CacheDisplayName(c)

\* C20: in every reachable state of concurrent calls, a call with a request
\* in flight holds no guard, no call holds more than one guard (so none was
\* acquired while another was held), a call that holds a guard is not waiting
\* for one, and every call that has started and not returned can take a step
\* or waits for a guard whose holder can: no state is a deadlock.
C20_NoGuardInFlightNoDeadlock ==
    /\ \A c \in Calls : request[c] # None => held[c] = {}
    /\ \A c \in Calls : Cardinality(held[c]) <= 1
    /\ \A c \in Calls : held[c] # {} => ~Waiting(c)
    /\ \A c, d \in Calls : c # d => held[c] \cap held[d] = {}
    /\ \A c \in Calls :
          pc[c] \notin Finished =>
              \/ ENABLED StepOf(c)
              \/ /\ Waiting(c)
                 /\ \E d \in Calls \ {c} : held[d] # {} /\ ENABLED StepOf(d)

\* One call holds the guard of a cache cell and another call waits for it.
C20_Witness ==
    \E c, d \in Calls :
        /\ c # d
        /\ held[c] # {}
        /\ Waiting(d)
        /\ CellAt(pc[d]) \in held[c] \/ kind[d] \in held[c]

(***************************************************************************)
(* The listing methods.                                                    *)
(***************************************************************************)
\* The call has returned a page: the response's cursor, and the response's
\* items converted one by one, in their order.
PageAsReceived ==
    LET page == classified.value
        body == exchange.body
    IN  /\ page[2] = body.nextPageCursor
        /\ Len(page[1]) = Len(body.data)
        /\ \A i \in 1 .. Len(body.data) :
              page[1][i] = IF argument.op = "resellers"
                           THEN Listing(body.data[i])
                           ELSE UserSale(body.data[i])

\* The service reads the cursor the caller passed, and the limit.
CursorReceived ==
    /\ QueryValue(wire[1], "cursor") = argument.cursor
    /\ QueryValue(wire[1], "limit") = Some(<<Display(LimitToU64(argument.limit))>>)

\* C19: resellers and user_sales return the response's next cursor as it is,
\* whether or not the page has items, and the response's items in their order
\* and number; and the cursor passed in reaches the service verbatim.
C19_PageAsReceivedCursorVerbatim ==
    /\ (classified.tag = "Ok" /\ argument # NoArgument) => PageAsReceived
    /\ (wire # None /\ argument.cursor # None) => CursorReceived

\* C19 without the cursors that hold "#" or "&": those the URL does not read
\* as syntax reach the service verbatim, and every page is returned as it was
\* received.
C19_ExceptUrlSyntax ==
    /\ (classified.tag = "Ok" /\ argument # NoArgument) => PageAsReceived
    /\ (/\ wire # None
        /\ argument.cursor # None
        /\ \A i \in 1 .. Len(argument.cursor[1]) :
              argument.cursor[1][i] \notin {"#", "&"})
       => CursorReceived

\* An empty page with a next cursor was returned as ([], Some(x)), for a call
\* that passed a cursor.
C19_EmptyPageReached ==
    /\ classified.tag = "Ok"
    /\ argument # NoArgument
    /\ argument.cursor # None
    /\ classified.value[1] = << >>
    /\ classified.value[2] = Some(<<"a">>)

(***************************************************************************)
(* What writes the Client's state.                                         *)
(***************************************************************************)
\* Call c takes its refresh step: from the first InvalidXcsrf on to the
\* second invocation.
RefreshStep(c) == pc[c] = "refresh" /\ pc'[c] = "attempt"

\* The response of some call arrives and is classified.
Arrives == \E c \in Calls : request[c] # None /\ request'[c] = None

\* A step of the session: xcsrf changes only in a refresh step; a refresh step
\* belongs to a mutating call whose first invocation returned InvalidXcsrf and
\* sets xcsrf to the token of that error; the arrival and classification of a
\* response, of a mutating call or of an accessor, writes neither xcsrf nor
\* the cache.
C21_Step ==
    /\ xcsrf' # xcsrf => \E c \in Calls : RefreshStep(c)
    /\ \A c \in Calls :
          RefreshStep(c) =>
              /\ kind[c] \in Mutating
              /\ Len(outcomes[c]) = 1
              /\ Stale(FirstOutcome(c))
              /\ xcsrf' = FirstOutcome(c).xcsrf
    /\ (Arrives \/ classified' # classified) =>
          UNCHANGED <<xcsrf, user_id, username, display_name>>

\* C21: xcsrf changes only in the refresh step of a mutating call whose first
\* attempt was InvalidXcsrf(new_xcsrf), and is then new_xcsrf; classification
\* and the read-only calls leave xcsrf and the identity cache as they are,
\* also on a 403 that carries a fresh token.
C21_OnlyRefreshWritesXcsrf == [][C21_Step]_vars

\* A mutating call has written the token of its first InvalidXcsrf, and an
\* accessor has returned an InvalidXcsrf whose fresh token is not in xcsrf.
C21_Witness ==
    /\ \E c \in Calls :
          /\ kind[c] \in Mutating
          /\ wrote[c] = 1
          /\ xcsrf = FirstOutcome(c).xcsrf
    /\ \E c \in Calls :
          /\ kind[c] \in Accessors
          /\ ReturnedStale(c)
          /\ result[c].xcsrf # xcsrf

\* Call c returns from its second invocation with an InvalidXcsrf, the first
\* having returned one too.
SecondStaleReturn(c) ==
    /\ kind[c] \in Mutating
    /\ pc[c] = "flight"
    /\ pc'[c] = "done"
    /\ Len(outcomes[c]) = 1
    /\ Stale(FirstOutcome(c))
    /\ Stale(result'[c])

\* The step in which a call returns its second InvalidXcsrf(t2) writes no
\* token; t2 is in the returned error; and if no other call has written xcsrf
\* since the call's own refresh, xcsrf still holds t1.
C22_Step ==
    \A c \in Calls :
        SecondStaleReturn(c) =>
            /\ xcsrf' = xcsrf
            /\ wrote'[c] = 1
            /\ result'[c] = outcomes'[c][2]
            /\ overw[c] = None => xcsrf' = FirstOutcome(c).xcsrf

\* C22: a mutating call that receives InvalidXcsrf(t1) and then
\* InvalidXcsrf(t2) does not store t2: without concurrent writers xcsrf is t1
\* when the call returns, and t2 reaches the caller in the returned error
\* only.
C22_SecondTokenNotStored == [][C22_Step]_vars

\* A call has returned InvalidXcsrf(t2) after InvalidXcsrf(t1), t1 and t2
\* differ, and xcsrf holds t1.
C22_Witness ==
    \E c \in Calls :
        /\ kind[c] \in Mutating
        /\ pc[c] = "done"
        /\ Len(outcomes[c]) = 2
        /\ Stale(FirstOutcome(c))
        /\ Stale(SecondOutcome(c))
        /\ FirstOutcome(c).xcsrf # SecondOutcome(c).xcsrf
        /\ result[c] = SecondOutcome(c)
        /\ xcsrf = FirstOutcome(c).xcsrf

(***************************************************************************)
(* The retried request.                                                    *)
(***************************************************************************)
\* The second request of a call has the method, the target and the json body
\* of its first.
C23_SameRequest ==
    \A c \in Calls :
        (kind[c] \in Mutating /\ Len(sent[c]) = 2) => sent[c][2] = sent[c][1]

\* The step that sends a call's second request comes after the call's
\* set_xcsrf and attaches what xcsrf holds then.
C23_Step ==
    \A c \in Calls :
        (/\ kind[c] \in Mutating
         /\ Len(sent[c]) = 1
         /\ Len(sent'[c]) = 2)
        => /\ wrote[c] = 1
           /\ request'[c][1].xcsrf = Some(xcsrf)

\* C23: the second attempt of put_limited_on_sale, take_limited_off_sale and
\* purchase_limited has the target and the parameters of the first, and
\* carries the token read from xcsrf after the refresh write.
C23_RetryIsSameRequestWithSlotToken == [](C23_SameRequest) /\ [][C23_Step]_vars

\* The second request of a purchase_limited is on the network, with the token
\* the call wrote.
C23_Witness ==
    \E c \in Calls :
        /\ kind[c] = "purchase_limited"
        /\ OnSecondAttempt(c)
        /\ Len(sent[c]) = 2
        /\ SecondAttemptToken(c) = FirstOutcome(c).xcsrf

(***************************************************************************)
(* The state machine of a mutating call.                                   *)
(***************************************************************************)
\* Where a call stands: Idle before it is made, Attempted through its first
\* invocation of *_internal, RefreshedRetried from the InvalidXcsrf arm on,
\* Done once it has returned; a call that panicked has not returned.
Phase(at, invocations) ==
    CASE at = "idle" -> "Idle"
      [] at = "done" -> "Done"
      [] at = "panicked" -> "Panicked"
      [] at \in {"attempt", "flight"} /\ invocations = 0 -> "Attempted"
      [] OTHER -> "RefreshedRetried"

\* The transitions of the machine; the last pair is the next call made by
\* the same caller.
Transitions ==
    {<<"Idle", "Attempted">>, <<"Attempted", "RefreshedRetried">>,
     <<"Attempted", "Done">>, <<"RefreshedRetried", "Done">>,
     <<"Done", "Attempted">>}

C24_Step ==
    \A c \in Calls :
        LET from == Phase(pc[c], Len(outcomes[c]))
            to == Phase(pc'[c], Len(outcomes'[c]))
        IN  from # to => <<from, to>> \in Transitions

Running(c) == pc[c] \in {"attempt", "flight", "refresh"}

\* C24: a mutating call goes Idle -> Attempted -> (RefreshedRetried)? -> Done
\* and takes no other transition; and when every request completes and the
\* scheduler is fair, every call reaches Done, whatever the service answers
\* and whatever the other calls do.
C24_BoundedMachineReachesDone ==
    /\ [][C24_Step]_vars
    /\ \A c \in Calls : Running(c) ~> pc[c] = "done"

\* The transitions of C24 with the one the panic adds, out of a call whose
\* response has arrived.
C24_StepOrPanic ==
    \A c \in Calls :
        LET from == Phase(pc[c], Len(outcomes[c]))
            to == Phase(pc'[c], Len(outcomes'[c]))
        IN  from # to =>
                \/ <<from, to>> \in Transitions
                \/ pc[c] = "flight" /\ to = "Panicked"
                \/ from = "Panicked" /\ to = "Attempted"

\* C24 but for the panic: every call returns or panics, after at most two
\* requests.
C24_ReachesDoneOrPanics ==
    /\ [][C24_StepOrPanic]_vars
    /\ [](\A c \in Calls : attempts[c] <= 2)
    /\ \A c \in Calls : Running(c) ~> pc[c] \in {"done", "panicked"}

(***************************************************************************)
(* What writes the identity cache.                                         *)
(***************************************************************************)
\* The fetch of call c has ended without a UserInformation: the transport
\* failed, the status was not 200, the body did not parse, or there was no
\* roblosecurity to send.
FetchFailed(c) ==
    /\ kind[c] \in Accessors
    /\ Len(outcomes[c]) = 1
    /\ FirstOutcome(c).tag # "Ok"

\* A step of the accessors: a cell changes only in the write of a call that
\* parsed a UserInformation, to that UserInformation's field; the step in
\* which a fetch fails or panics changes no cell; a filled cell is never
\* emptied.
C25_Step ==
    /\ \A k \in Accessors :
          Cached(k)' # Cached(k) =>
              \E c \in Calls :
                  /\ pc[c] = CHOOSE at \in {"cache_user_id", "cache_username",
                                            "cache_display_name"} : CellAt(at) = k
                  /\ info[c] # None
                  /\ FirstOutcome(c).tag = "Ok"
                  /\ Cached(k)' = Some(Field(k, info[c][1]))
    /\ \A c \in Calls :
          (pc[c] = "flight" /\ kind[c] \in Accessors /\ pc'[c] \in {"done", "panicked"})
          => UNCHANGED <<user_id, username, display_name>>
    /\ \A k \in Accessors : Cached(k) # None => Cached(k)' # None

\* A call whose fetch failed has returned the error and has nothing to cache.
C25_FailedFetchReturns ==
    \A c \in Calls :
        FetchFailed(c) => pc[c] = "done" /\ info[c] = None /\ result[c] = FirstOutcome(c)

\* C25: the identity cache is written only after a fetch that succeeded in
\* full: a fetch that ends in a transport failure, a status other than 200
\* or a body that is no UserInformation leaves every cell as it was; and no
\* step empties a cell that is filled.
C25_CacheWrittenOnlyOnSuccess == [](C25_FailedFetchReturns) /\ [][C25_Step]_vars

\* The fetch of one call has failed while the cells hold what another call
\* fetched.
C25_Witness ==
    /\ user_id # None
    /\ username # None
    /\ display_name # None
    /\ \E c \in Calls :
          /\ FetchFailed(c)
          /\ attempts[c] = 1
          /\ FirstOutcome(c).tag \in {"ReqwestError", "MalformedResponse",
                                      "InternalServerError"}

====
